---- MODULE Spec2Model ----
(***************************************************************************)
(* A model of the water-quality cleaning and plotting scripts:             *)
(*   clean_excel.py : clean_data, process_sheets                           *)
(*   app.py         : clean_and_merge_data, nice_num, calculate_max_values,*)
(*                    generate_plots_for_file, the main loop               *)
(*                                                                         *)
(* Text is a sequence of one-character strings.  A cell value is a record  *)
(*   [k |-> "str", s |-> <<chars>>]      a text cell                        *)
(*   [k |-> "num", m |-> m, fd |-> fd]   the number m / 10^fd, normalised   *)
(*   [k |-> "nan"]                       an empty cell (float NaN)          *)
(* Decimal numbers are exact; the inputs are chosen so that the binary     *)
(* floating point of the code takes the same decisions.                    *)
(***************************************************************************)
EXTENDS Integers, Sequences, FiniteSets, TLC

VARIABLES
    \* clean_data: the raw cell, its normalized value, the value normalized again
    value, cleaned, recleaned, pcC,
    \* nice_num: the argument and the result
    nx, nres, pcN,
    \* process_sheets: the loop index, what each sheet attempted so far held,
    \* error_log.txt, the sheets whose CSV exists, the CSV written last, the
    \* error_data_*.csv files
    si, hist, log, written, lastcsv, errfiles, pcS,
    \* app.py: the index of the file being read, the frames read so far put
    \* end to end, the merged frame, the shared maxima, the index of the file
    \* being plotted, the panels of each chart
    fi, all_data, df_all, max_values, gi, plots, pcP

varsC == <<value, cleaned, recleaned, pcC>>

varsN == <<nx, nres, pcN>>

varsS == <<si, hist, log, written, lastcsv, errfiles, pcS>>

varsP == <<fi, all_data, df_all, max_values, gi, plots, pcP>>

vars == <<value, cleaned, recleaned, pcC, nx, nres, pcN,
          si, hist, log, written, lastcsv, errfiles, pcS,
          fi, all_data, df_all, max_values, gi, plots, pcP>>

(***************************************************************************)
(* Bounds of the model.                                                    *)
(***************************************************************************)
\* The longest text cell, counted in tokens of Tokens.
MaxTokens == 5

\* nice_num is run on 0, 0.5, 1, 1.5, ... , MaxNice / 2.
MaxNice == 300

\* process_sheets is given the first MaxSheets names of the main block, and a
\* sheet holds at most MaxSheetRows rows.
MaxSheets == 2

MaxSheetRows == 1

\* The CSV files of the folder hold at most MaxRows rows between them.
MaxRows == 3

(***************************************************************************)
(* Numbers.                                                                *)
(***************************************************************************)
RECURSIVE Pow10(_)
Pow10(n) == IF n <= 0 THEN 1 ELSE 10 * Pow10(n - 1)

RECURSIVE Norm(_, _)
Norm(m, fd) ==
    IF fd > 0 /\ m % 10 = 0 THEN Norm(m \div 10, fd - 1)
    ELSE [k |-> "num", m |-> m, fd |-> fd]

Zero == Norm(0, 0)

NaN == [k |-> "nan"]

Str(s) == [k |-> "str", s |-> s]

Halve(v) == Norm(v.m * 5, v.fd + 1)

\* a * b, a + b, a < b and a <= b on numbers
Mul(a, b) == Norm(a.m * b.m, a.fd + b.fd)

Add(a, b) == Norm(a.m * Pow10(b.fd) + b.m * Pow10(a.fd), a.fd + b.fd)

Less(a, b) == a.m * Pow10(b.fd) < b.m * Pow10(a.fd)

Leq(a, b) == a.m * Pow10(b.fd) <= b.m * Pow10(a.fd)

\* 10 ** e, for e of either sign
Ten(e) == IF e >= 0 THEN Norm(Pow10(e), 0) ELSE Norm(1, 0 - e)

(***************************************************************************)
(* Characters.                                                             *)
(***************************************************************************)
DigitVal ==
    ("0" :> 0) @@ ("1" :> 1) @@ ("2" :> 2) @@ ("3" :> 3) @@ ("4" :> 4) @@
    ("5" :> 5) @@ ("6" :> 6) @@ ("7" :> 7) @@ ("8" :> 8) @@ ("9" :> 9)

IsDigit(c) == c \in DOMAIN DigitVal

\* the character class [\d.] of the three patterns
IsNumCh(c) == IsDigit(c) \/ c = "."

IsSpace(c) == c = " "

UpperCh(c) ==
    CASE c = "n" -> "N"
      [] c = "d" -> "D"
      [] c = "a" -> "A"
      [] c = "b" -> "B"
      [] c = "c" -> "C"
      [] OTHER -> c

Upper(s) == [i \in 1..Len(s) |-> UpperCh(s[i])]

RECURSIVE LStrip(_)
LStrip(s) == IF s # <<>> /\ IsSpace(Head(s)) THEN LStrip(Tail(s)) ELSE s

RECURSIVE RStrip(_)
RStrip(s) ==
    IF s # <<>> /\ IsSpace(s[Len(s)]) THEN RStrip(SubSeq(s, 1, Len(s) - 1)) ELSE s

\* no trimming at all
StripId(s) == s

\* str.strip()
Strip(s) == RStrip(LStrip(s))

\* re.sub(r'^\*|\*$', '', value): one leading and one trailing asterisk
StripStars(s) ==
    LET a == IF s # <<>> /\ Head(s) = "*" THEN Tail(s) ELSE s
    IN  IF a # <<>> /\ a[Len(a)] = "*" THEN SubSeq(a, 1, Len(a) - 1) ELSE a

(***************************************************************************)
(* float(text): surrounding whitespace is ignored, an optional sign, then  *)
(* digits with at most one point and at least one digit.  The alphabet of  *)
(* the model holds no exponent letter, underscore, plus sign or spelling   *)
(* of inf/nan, so every other text raises ValueError.                      *)
(***************************************************************************)
RECURSIVE DigitsVal(_)
DigitsVal(s) ==
    IF s = <<>> THEN 0
    ELSE DigitsVal(SubSeq(s, 1, Len(s) - 1)) * 10 + DigitVal[s[Len(s)]]

NoFloat == [ok |-> FALSE]

ParseFloat(s) ==
    LET t    == RStrip(LStrip(s))
        neg  == t # <<>> /\ Head(t) = "-"
        u    == IF neg THEN Tail(t) ELSE t
        dots == {i \in 1..Len(u) : u[i] = "."}
        digs == SelectSeq(u, IsDigit)
        fd   == IF dots = {} THEN 0 ELSE Len(u) - (CHOOSE i \in dots : TRUE)
        mag  == DigitsVal(digs)
    IN  IF /\ \A i \in 1..Len(u) : IsNumCh(u[i])
           /\ Cardinality(dots) <= 1
           /\ digs # <<>>
        THEN [ok |-> TRUE, v |-> Norm(IF neg THEN 0 - mag ELSE mag, fd)]
        ELSE NoFloat

(***************************************************************************)
(* re.search: the leftmost match of each pattern; its group is the longest *)
(* run of [\d.] characters at that place.                                  *)
(***************************************************************************)
\* the end of the longest run of [\d.] starting at i (i - 1 when there is none)
RECURSIVE RunEnd(_, _)
RunEnd(s, i) == IF i <= Len(s) /\ IsNumCh(s[i]) THEN RunEnd(s, i + 1) ELSE i - 1

\* the end of the run of whitespace starting at i
RECURSIVE SpaceEnd(_, _)
SpaceEnd(s, i) == IF i <= Len(s) /\ IsSpace(s[i]) THEN SpaceEnd(s, i + 1) ELSE i - 1

NoMatch == [found |-> FALSE]

Least(S) == CHOOSE i \in S : \A j \in S : i <= j

\* re.search(r'\(([\d.]+)\)', value)
SearchParen(s) ==
    LET at == {i \in 1..Len(s) :
                  /\ s[i] = "("
                  /\ RunEnd(s, i + 1) >= i + 1
                  /\ RunEnd(s, i + 1) < Len(s)
                  /\ s[RunEnd(s, i + 1) + 1] = ")"}
    IN  IF at = {} THEN NoMatch
        ELSE [found |-> TRUE,
              group |-> SubSeq(s, Least(at) + 1, RunEnd(s, Least(at) + 1))]

\* re.search(r'@([\d.]+)', value)
SearchAt(s) ==
    LET at == {i \in 1..Len(s) : s[i] = "@" /\ RunEnd(s, i + 1) >= i + 1}
    IN  IF at = {} THEN NoMatch
        ELSE [found |-> TRUE,
              group |-> SubSeq(s, Least(at) + 1, RunEnd(s, Least(at) + 1))]

\* re.search(r'<\s*([\d.]+)', value)
SearchLt(s) ==
    LET st(i) == SpaceEnd(s, i + 1) + 1
        at == {i \in 1..Len(s) : s[i] = "<" /\ RunEnd(s, st(i)) >= st(i)}
    IN  IF at = {} THEN NoMatch
        ELSE [found |-> TRUE,
              group |-> SubSeq(s, st(Least(at)), RunEnd(s, st(Least(at))))]

(***************************************************************************)
(* The rules of clean_data, each on the trimmed, asterisk-stripped text.   *)
(* A rule whose number does not parse falls through (except: pass).        *)
(***************************************************************************)
\* lines 35-36
DashRule(v) ==
    IF v \in {<<"-">>, <<"emdash">>} THEN [ok |-> TRUE, v |-> Zero] ELSE NoFloat

\* lines 39-45
ParenRule(v) ==
    LET m == SearchParen(v)
    IN  IF m.found THEN ParseFloat(m.group) ELSE NoFloat

\* lines 48-54
AtRule(v) ==
    LET m == SearchAt(v)
    IN  IF m.found THEN ParseFloat(m.group) ELSE NoFloat

\* lines 57-63
LtRule(v) ==
    LET m == SearchLt(v)
        f == IF m.found THEN ParseFloat(m.group) ELSE NoFloat
    IN  IF f.ok THEN [ok |-> TRUE, v |-> Halve(f.v)] ELSE NoFloat

\* lines 66-67
NdRule(v) ==
    IF Upper(v) = <<"N", "D">> \/ v = <<"N", ".", "A", ".">>
    THEN [ok |-> TRUE, v |-> Zero] ELSE NoFloat

\* lines 70-73
NumRule(v) == ParseFloat(v)

\* lines 29-32
Prep(s) == StripStars(Strip(s))

\* the chain with the '<' rule tried before the parenthesis rule
clean_data_LtFirst(val) ==
    IF val.k # "str" THEN val
    ELSE LET v == Prep(val.s)
         IN  IF DashRule(v).ok THEN DashRule(v).v
             ELSE IF LtRule(v).ok THEN LtRule(v).v
             ELSE IF ParenRule(v).ok THEN ParenRule(v).v
             ELSE IF AtRule(v).ok THEN AtRule(v).v
             ELSE IF NdRule(v).ok THEN NdRule(v).v
             ELSE IF NumRule(v).ok THEN NumRule(v).v
             ELSE Str(v)

clean_data(val) ==
    IF val.k # "str" THEN val
    ELSE LET v == Prep(val.s)
         IN  IF DashRule(v).ok THEN DashRule(v).v
             ELSE IF ParenRule(v).ok THEN ParenRule(v).v
             ELSE IF AtRule(v).ok THEN AtRule(v).v
             ELSE IF LtRule(v).ok THEN LtRule(v).v
             ELSE IF NdRule(v).ok THEN NdRule(v).v
             ELSE IF NumRule(v).ok THEN NumRule(v).v
             ELSE Str(v)

(***************************************************************************)
(* The cells the normalizer is run on: every text of at most MaxTokens     *)
(* tokens, the examples of the documentation, and cells that are not text. *)
(***************************************************************************)
Tokens ==
    { <<" ">>, <<"*">>, <<"-">>, <<"(">>, <<")">>, <<"@">>, <<"<">>, <<"1">>, <<".">> }

RECURSIVE Flatten(_)
Flatten(ts) == IF ts = <<>> THEN <<>> ELSE Head(ts) \o Flatten(Tail(ts))

TokenTexts == {Flatten(ts) : ts \in UNION {[1..n -> Tokens] : n \in 0..MaxTokens}}

Examples ==
    { <<"<", "1", "0">>,
      <<"(", "3", ".", "2", ")">>,
      <<"(", "3", ".", "2", ")", " ", "<", "1", "0">>,
      <<"<", "1", "0", " ", "(", "3", ".", "2", ")">>,
      <<"N", "D">>, <<"n", "d">>, <<"N", "d">>, <<"N", ".", "A", ".">>,
      <<" ", "N", "D", " ">>, <<"*", "N", "D", "*">>, <<"N", "D", "1">>,
      <<"<", "N", "D">>, <<"n", ".", "a", ".">>,
      <<"emdash">>, <<"*", "emdash">>,
      <<"*", "5", "*">>,
      <<"*", "*", "5", "*", "*">>,
      <<"a", "b", "c">>,
      <<" ", "7", ".", "5", "0", " ">>,
      <<"1", "2", "@", "0", ".", "4">>,
      <<"-", "2", ".", "5">> }

NonText == {NaN, Zero, Norm(5, 0), Norm(32, 1), Norm(0 - 25, 1)}

RawCells == {Str(s) : s \in TokenTexts \cup Examples} \cup NonText

None == [k |-> "none"]

IdleClean == value = None /\ cleaned = None /\ recleaned = None /\ pcC = "off"

IdleNice == nx = None /\ nres = None /\ pcN = "off"

IdleSheets ==
    /\ si = 0
    /\ hist = <<>>
    /\ log = <<>>
    /\ written = {}
    /\ lastcsv = None
    /\ errfiles = {}
    /\ pcS = "off"

IdlePlot ==
    /\ fi = 0
    /\ all_data = <<>>
    /\ df_all = None
    /\ max_values = None
    /\ gi = 0
    /\ plots = <<>>
    /\ pcP = "off"

InitClean ==
    /\ value \in RawCells
    /\ cleaned = None
    /\ recleaned = None
    /\ pcC = "raw"
    /\ IdleNice
    /\ IdleSheets
    /\ IdlePlot

\* the extraction pipeline normalizes the cell (clean_excel.py line 131)
Normalize ==
    /\ pcC = "raw"
    /\ cleaned' = clean_data(value)
    /\ pcC' = "cleaned"
    /\ UNCHANGED <<value, recleaned>>
    /\ UNCHANGED <<varsN, varsS, varsP>>

\* the normalized value is normalized once more
Renormalize ==
    /\ pcC = "cleaned"
    /\ recleaned' = clean_data(cleaned)
    /\ pcC' = "recleaned"
    /\ UNCHANGED <<value, cleaned>>
    /\ UNCHANGED <<varsN, varsS, varsP>>

NextClean == Normalize \/ Renormalize

SpecClean == InitClean /\ [][NextClean]_vars

(***************************************************************************)
(* nice_num (app.py lines 40-52).  For x = m / 10^fd > 0 with m of d       *)
(* digits, floor(log10(x)) = d - 1 - fd and x / 10^exponent = m / 10^(d-1).*)
(* math.log10 raises ValueError on an argument that is not positive.       *)
(***************************************************************************)
RECURSIVE NumDigits(_)
NumDigits(m) == IF m < 10 THEN 1 ELSE 1 + NumDigits(m \div 10)

ValueError == [k |-> "ValueError"]

\* the comparisons with <= in place of <
nice_num_Leq(x) ==
    IF x.k # "num" \/ x.m <= 0 THEN ValueError
    ELSE LET p        == Pow10(NumDigits(x.m) - 1)
             exponent == NumDigits(x.m) - 1 - x.fd
             nice_fraction ==
                 IF 2 * x.m <= 3 * p THEN 1
                 ELSE IF x.m <= 3 * p THEN 2
                 ELSE IF x.m <= 7 * p THEN 5
                 ELSE 10
         IN  Mul(Norm(nice_fraction, 0), Ten(exponent))

nice_num(x) ==
    IF x.k # "num" \/ x.m <= 0 THEN ValueError
    ELSE LET p        == Pow10(NumDigits(x.m) - 1)
             exponent == NumDigits(x.m) - 1 - x.fd
             nice_fraction ==
                 IF 2 * x.m < 3 * p THEN 1
                 ELSE IF x.m < 3 * p THEN 2
                 ELSE IF x.m < 7 * p THEN 5
                 ELSE 10
         IN  Mul(Norm(nice_fraction, 0), Ten(exponent))

\* the arguments: the multiples of 0.5, which binary floating point holds
\* exactly, from 0 to MaxNice / 2
NiceArgs == {Norm(5 * n, 1) : n \in 0..MaxNice}

InitNice ==
    /\ nx \in NiceArgs
    /\ nres = None
    /\ pcN = "arg"
    /\ IdleClean
    /\ IdleSheets
    /\ IdlePlot

CallNiceNum ==
    /\ pcN = "arg"
    /\ nres' = nice_num(nx)
    /\ pcN' = "done"
    /\ UNCHANGED nx
    /\ UNCHANGED <<varsC, varsS, varsP>>

NextNice == CallNiceNum

SpecNice == InitNice /\ [][NextNice]_vars

(***************************************************************************)
(* process_sheets (clean_excel.py lines 75-138).  One action is one turn   *)
(* of the loop over sheet_names.  What the workbook holds for the sheet,   *)
(* and whether the CSV can be written, is drawn when the sheet is read.    *)
(***************************************************************************)
required_headers ==
    <<"sample_time", "suspended_solids", "ammonia_nitrogen", "bod", "total_phosphorus">>

Range(f) == {f[i] : i \in DOMAIN f}

\* the sheet names of the main block (line 142)
AllSheetNames ==
    <<"G-1", "G-1A", "G-1B", "G-1B-up", "G-1B-mid", "G-2", "G-3", "G-3A", "G-3B",
      "G-4", "G-5">>

sheet_names == SubSeq(AllSheetNames, 1, MaxSheets)

\* the header rows a sheet may have: none of the required columns, all five,
\* all but total_phosphorus, sample_time alone
ColLists ==
    { <<"remark">>,
      required_headers,
      <<"sample_time", "remark", "suspended_solids", "ammonia_nitrogen", "bod">>,
      <<"sample_time">> }

SheetCells == <<Str(<<"<", "1", "0">>), Str(<<"N", "D">>), Norm(32, 1), NaN,
                Str(<<"a", "b", "c">>)>>

\* row number k of the catalogue: column i holds cell number (i + k) mod 5
RowOf(cols, k) ==
    [c \in Range(cols) |->
        SheetCells[(((CHOOSE i \in DOMAIN cols : cols[i] = c) + k) % 5) + 1]]

RowSeqs(cols) ==
    UNION {[1..n -> {RowOf(cols, k) : k \in 0..2}] : n \in 0..MaxSheetRows}

\* line 99, taking every column that is present
available_columns_all(cols) == cols

\* line 99
available_columns(cols) ==
    SelectSeq(cols, LAMBDA c : c \in Range(required_headers))

\* lines 108-116: the rows with a cell on which clean_data raises; clean_data
\* returns on every cell, so an exception value is never seen
problematic_rows(rows, cols) ==
    SelectSeq(rows, LAMBDA r : \E c \in Range(cols) : clean_data(r[c]).k = "exception")

\* lines 126-131
df_filtered(name, rows, cols) ==
    [src  |-> name,
     cols |-> cols,
     rows |-> [i \in DOMAIN rows |-> [c \in Range(cols) |-> clean_data(rows[i][c])]]]

InitSheets ==
    /\ si = 1
    /\ hist = <<>>
    /\ log = <<>>
    /\ written = {}
    /\ lastcsv = None
    /\ errfiles = {}
    /\ pcS = "loop"
    /\ IdleClean
    /\ IdleNice
    /\ IdlePlot

\* lines 82-89: pd.read_excel raises; the error is logged and the loop goes on
SheetUnreadable ==
    /\ pcS = "loop"
    /\ si <= Len(sheet_names)
    /\ hist' = Append(hist, [name |-> sheet_names[si], read |-> FALSE,
                              cols |-> <<>>, empty |-> TRUE])
    /\ log' = Append(log, <<"read_error", sheet_names[si]>>)
    /\ si' = si + 1
    /\ UNCHANGED <<written, lastcsv, errfiles, pcS>>
    /\ UNCHANGED <<varsC, varsN, varsP>>

\* lines 84-138 for a sheet that is read
SheetRead ==
    /\ pcS = "loop"
    /\ si <= Len(sheet_names)
    /\ \E cols \in ColLists : \E rows \in RowSeqs(cols) : \E write_fails \in BOOLEAN :
         LET name  == sheet_names[si]
             avail == available_columns(cols)
             prob  == problematic_rows(rows, avail)
         IN  /\ hist' = Append(hist, [name |-> name, read |-> TRUE,
                                       cols |-> cols, empty |-> rows = <<>>])
             /\ IF rows = <<>>
                THEN \* lines 92-96
                     /\ log' = Append(log, <<"empty", name>>)
                     /\ si' = si + 1
                     /\ UNCHANGED <<written, lastcsv, errfiles, pcS>>
                ELSE IF avail = <<>>
                THEN \* lines 100-104
                     /\ log' = Append(log, <<"no_columns", name>>)
                     /\ si' = si + 1
                     /\ UNCHANGED <<written, lastcsv, errfiles, pcS>>
                ELSE \* lines 106-138
                     /\ errfiles' = IF prob # <<>> THEN errfiles \cup {name} ELSE errfiles
                     /\ log' = IF prob # <<>>
                               THEN Append(log, <<"saved_error_data", name>>) ELSE log
                     /\ IF ~write_fails
                        THEN /\ written' = written \cup {name}
                             /\ lastcsv' = df_filtered(name, rows, avail)
                             /\ si' = si + 1
                             /\ pcS' = pcS
                        ELSE \* to_csv raises and nothing catches it
                             /\ pcS' = "raised"
                             /\ UNCHANGED <<written, lastcsv, si>>
    /\ UNCHANGED <<varsC, varsN, varsP>>

\* the loop is over
SheetsDone ==
    /\ pcS = "loop"
    /\ si > Len(sheet_names)
    /\ pcS' = "done"
    /\ UNCHANGED <<si, hist, log, written, lastcsv, errfiles>>
    /\ UNCHANGED <<varsC, varsN, varsP>>

NextSheets == SheetUnreadable \/ SheetRead \/ SheetsDone

SpecSheets == InitSheets /\ [][NextSheets]_vars

(***************************************************************************)
(* app.py.  A cell of a CSV file is a number, empty (NaN) or text; a       *)
(* sample time is a date or something that is no date.  A plotted value is *)
(* a fraction [n, d] (interpolation divides by the length of the gap).     *)
(***************************************************************************)
Params == <<"suspended_solids", "ammonia_nitrogen", "bod", "total_phosphorus">>

ParamSet == Range(Params)

\* the folder listing of load_csv_files (lines 9-11)
csv_files == <<"G-1.csv", "G-2.csv">>

Date(n) == [k |-> "date", day |-> n]

NaT == [k |-> "nat"]

\* the measurements of a row, by kind: nothing that reads as a number (two
\* empty cells, two texts)
GapRow ==
    ("suspended_solids" :> NaN) @@
    ("ammonia_nitrogen" :> Str(<<"N", "D">>)) @@
    ("bod" :> Str(<<"a", "b", "c">>)) @@
    ("total_phosphorus" :> NaN)

\* zero and negative numbers
NonPositiveRow ==
    ("suspended_solids" :> Norm(0, 0)) @@
    ("ammonia_nitrogen" :> Norm(0 - 1, 1)) @@
    ("bod" :> Norm(0, 0)) @@
    ("total_phosphorus" :> Norm(0 - 2, 0))

\* positive numbers not above the baselines, one of them held as text
LowRow ==
    ("suspended_solids" :> Norm(10, 0)) @@
    ("ammonia_nitrogen" :> Str(<<"0", ".", "0", "5">>)) @@
    ("bod" :> Norm(1, 0)) @@
    ("total_phosphorus" :> Norm(5, 0))

\* numbers above the baselines
HighRow ==
    ("suspended_solids" :> Norm(60, 0)) @@
    ("ammonia_nitrogen" :> Norm(2, 1)) @@
    ("bod" :> Norm(25, 1)) @@
    ("total_phosphorus" :> Norm(30, 0))

\* larger numbers still, in the row whose sample time is no date
PeakRow ==
    ("suspended_solids" :> Norm(900, 0)) @@
    ("ammonia_nitrogen" :> Norm(9, 0)) @@
    ("bod" :> Norm(90, 0)) @@
    ("total_phosphorus" :> Norm(900, 0))

ValueRows == {GapRow, NonPositiveRow, LowRow, HighRow}

\* the rows a file may hold: each kind of measurements on either of two
\* days, and a row whose sample time is no date
FileRows ==
    {[t |-> tc, v |-> vr] : tc \in {Date(1), Date(2)}, vr \in ValueRows}
    \cup {[t |-> Str(<<"N", "D">>), v |-> PeakRow]}

FileRowSeqs(n) == UNION {[1..k -> FileRows] : k \in 0..n}

\* pd.to_datetime(..., errors="coerce") (line 31)
to_datetime(c) == IF c.k = "date" THEN [k |-> "ts", day |-> c.day] ELSE NaT

\* pd.to_numeric(..., errors="coerce") (line 36)
to_numeric(c) ==
    IF c.k = "num" THEN c
    ELSE IF c.k = "str" /\ ParseFloat(c.s).ok THEN ParseFloat(c.s).v
    ELSE NaN

\* a row is kept only when every field parses
KeepRowAllValid(r) ==
    to_datetime(r.t) # NaT /\ \A p \in ParamSet : to_numeric(r.v[p]) # NaN

\* dropna(subset=[sample time]) (line 32)
KeepRow(r) == to_datetime(r.t) # NaT

\* lines 31-36 on one row; idx is the row's index in the concatenation
MergedRow(all, i) ==
    [idx |-> i,
     t   |-> to_datetime(all[i].t),
     v   |-> [p \in ParamSet |-> to_numeric(all[i].v[p])],
     src |-> all[i].src]

\* sort_values(by=sample time) (line 33): the kept rows in an order of
\* ascending sample time; the order of equal sample times is not fixed
SortedFrames(all) ==
    LET kept == {i \in DOMAIN all : KeepRow(all[i])}
        n    == Cardinality(kept)
    IN  {[j \in 1..n |-> MergedRow(all, f[j])] :
            f \in {g \in [1..n -> kept] :
                     /\ \A a \in 1..n : \A b \in 1..n : a # b => g[a] # g[b]
                     /\ \A a \in 1..n : \A b \in 1..n :
                           a < b => to_datetime(all[g[a]].t).day <= to_datetime(all[g[b]].t).day}}

\* the factor of line 64
Headroom == Norm(105, 2)

\* df_all[param].max(skipna=True): the largest number of the column, NaN
\* when it holds none
ColumnMax(df, p) ==
    LET vals == {df[i].v[p] : i \in DOMAIN df} \ {NaN}
    IN  IF vals = {} THEN NaN
        ELSE CHOOSE x \in vals : \A y \in vals : Leq(y, x)

\* the maxima without the replacement of a maximum that is not positive
calculate_max_values_NoFloor(df) ==
    [p \in ParamSet |->
        LET raw_max == ColumnMax(df, p)
        IN  Mul(IF raw_max = NaN THEN Norm(1, 0) ELSE raw_max, Headroom)]

\* lines 54-65
calculate_max_values(df) ==
    [p \in ParamSet |->
        LET raw_max == ColumnMax(df, p)
        IN  Mul(IF raw_max = NaN \/ raw_max.m <= 0 THEN Norm(1, 0) ELSE raw_max,
                Headroom)]

\* the baselines of lines 76-81
baseline ==
    ("suspended_solids" :> Norm(50, 0)) @@ ("ammonia_nitrogen" :> Norm(1, 1)) @@
    ("bod" :> Norm(1, 0)) @@ ("total_phosphorus" :> Norm(25, 0))

Frac(x) == IF x = NaN THEN NaN ELSE [k |-> "frac", n |-> x.m, d |-> Pow10(x.fd)]

FracLess(a, b) == a.n * b.d < b.n * a.d

\* Series.interpolate(method="linear") (line 95): a gap between two numbers is
\* filled on the straight line between them, by position; a gap after the
\* last number is filled with that number; a gap before the first is left
interpolate(vals) ==
    [i \in DOMAIN vals |->
        IF vals[i] # NaN THEN vals[i]
        ELSE LET before == {j \in DOMAIN vals : j < i /\ vals[j] # NaN}
                 after  == {j \in DOMAIN vals : j > i /\ vals[j] # NaN}
             IN  IF before = {} THEN NaN
                 ELSE LET l == CHOOSE j \in before : \A h \in before : h <= j
                      IN  IF after = {} THEN vals[l]
                          ELSE LET r == Least(after)
                                   a == vals[l]
                                   b == vals[r]
                               IN  [k |-> "frac",
                                    n |-> a.n * b.d * (r - l)
                                          + (b.n * a.d - a.n * b.d) * (i - l),
                                    d |-> a.d * b.d * (r - l)]]

\* the rows of a file in the merged frame (line 90)
Group(df, file) == SelectSeq(df, LAMBDA r : r.src = file)

\* the largest value of the file itself, with the headroom
AxisMaxOwn(df, file, p, maxv) == calculate_max_values(Group(df, file))[p]

\* line 124
AxisMax(df, file, p, maxv) == maxv[p]

\* math.ceil(a / b) * b for numbers a and b > 0 (line 126)
CeilTimes(a, b) ==
    LET num == a.m * Pow10(b.fd)
        den == b.m * Pow10(a.fd)
        q   == IF num % den = 0 THEN num \div den ELSE (num \div den) + 1
    IN  Mul(Norm(q, 0), b)

\* the points drawn in orange: the values of the interpolated column above
\* the baseline (lines 101-111)
OverPoints(line, p) ==
    {i \in DOMAIN line : line[i] # NaN /\ FracLess(Frac(baseline[p]), line[i])}

\* lines 86-136 for one parameter
Panel(df, file, p, maxv) ==
    LET group == Group(df, file)
        line  == interpolate([i \in DOMAIN group |-> Frac(group[i].v[p])])
        raw_max == AxisMax(df, file, p, maxv)
        tick_interval == nice_num(Mul(raw_max, Norm(2, 1)))
    IN  IF group = <<>> THEN [drawn |-> FALSE]
        ELSE [drawn    |-> TRUE,
              measured |-> [i \in DOMAIN group |-> group[i].v[p]],
              line     |-> line,
              over     |-> OverPoints(line, p),
              tick     |-> tick_interval,
              y_limit  |-> IF tick_interval = ValueError THEN ValueError
                           ELSE CeilTimes(raw_max, tick_interval)]

InitPlot ==
    /\ fi = 1
    /\ all_data = <<>>
    /\ df_all = None
    /\ max_values = None
    /\ gi = 0
    /\ plots = <<>>
    /\ pcP = "read"
    /\ IdleClean
    /\ IdleNice
    /\ IdleSheets

\* line 20: pd.read_csv raises (an empty or unreadable file) and nothing
\* catches it
ReadCsvRaises ==
    /\ pcP = "read"
    /\ fi <= Len(csv_files)
    /\ pcP' = "raised"
    /\ UNCHANGED <<fi, all_data, df_all, max_values, gi, plots>>
    /\ UNCHANGED <<varsC, varsN, varsS>>

\* lines 24-25: the file lacks a required column and is skipped
ReadCsvSkipped ==
    /\ pcP = "read"
    /\ fi <= Len(csv_files)
    /\ fi' = fi + 1
    /\ UNCHANGED <<all_data, df_all, max_values, gi, plots, pcP>>
    /\ UNCHANGED <<varsC, varsN, varsS>>

\* lines 19-23: the file holds the required columns
ReadCsv ==
    /\ pcP = "read"
    /\ fi <= Len(csv_files)
    /\ \E rows \in FileRowSeqs(MaxRows - Len(all_data)) :
         all_data' = all_data \o
             [i \in DOMAIN rows |-> [t |-> rows[i].t, v |-> rows[i].v,
                                     src |-> csv_files[fi]]]
    /\ fi' = fi + 1
    /\ UNCHANGED <<df_all, max_values, gi, plots, pcP>>
    /\ UNCHANGED <<varsC, varsN, varsS>>

\* lines 27-28: no file had the columns (or every frame was empty, on which
\* pd.concat with rows of no frame gives an empty frame)
MergeNothing ==
    /\ pcP = "read"
    /\ fi > Len(csv_files)
    /\ all_data = <<>>
    /\ pcP' = "done"
    /\ UNCHANGED <<fi, all_data, df_all, max_values, gi, plots>>
    /\ UNCHANGED <<varsC, varsN, varsS>>

\* lines 30-38
Merge ==
    /\ pcP = "read"
    /\ fi > Len(csv_files)
    /\ all_data # <<>>
    /\ df_all' \in SortedFrames(all_data)
    /\ pcP' = "merged"
    /\ UNCHANGED <<fi, all_data, max_values, gi, plots>>
    /\ UNCHANGED <<varsC, varsN, varsS>>

\* line 162
CalculateMax ==
    /\ pcP = "merged"
    /\ max_values' = calculate_max_values(df_all)
    /\ gi' = 1
    /\ pcP' = "plot"
    /\ UNCHANGED <<fi, all_data, df_all, plots>>
    /\ UNCHANGED <<varsC, varsN, varsS>>

\* lines 163-164: generate_plots_for_file for the next file of the listing;
\* on an empty merged frame it returns at once (lines 69-71); after the last
\* file the program ends
GeneratePlot ==
    /\ pcP = "plot"
    /\ gi <= Len(csv_files)
    /\ plots' = Append(plots,
                 IF df_all = <<>> THEN [file |-> csv_files[gi], saved |-> FALSE]
                 ELSE [file   |-> csv_files[gi],
                       saved  |-> TRUE,
                       panels |-> [p \in ParamSet |->
                                     Panel(df_all, csv_files[gi], p, max_values)]])
    /\ gi' = gi + 1
    /\ pcP' = IF gi = Len(csv_files) THEN "done" ELSE "plot"
    /\ UNCHANGED <<fi, all_data, df_all, max_values>>
    /\ UNCHANGED <<varsC, varsN, varsS>>

NextPlot ==
    \/ ReadCsvRaises
    \/ ReadCsvSkipped
    \/ ReadCsv
    \/ MergeNothing
    \/ Merge
    \/ CalculateMax
    \/ GeneratePlot

SpecPlot == InitPlot /\ [][NextPlot]_vars

(***************************************************************************)
(* Claims about clean_data.                                                *)
(***************************************************************************)
RuleOut(k, v) ==
    CASE k = 1 -> DashRule(v)
      [] k = 2 -> ParenRule(v)
      [] k = 3 -> AtRule(v)
      [] k = 4 -> LtRule(v)
      [] k = 5 -> NdRule(v)
      [] k = 6 -> NumRule(v)

Matching(v) == {k \in 1..6 : RuleOut(k, v).ok}

FirstMatch(v) ==
    IF Matching(v) = {} THEN Str(v) ELSE RuleOut(Least(Matching(v)), v).v

\* C4: the normalized value of a text cell is the result of the earliest rule,
\* in the order dash, parenthesis, '@', '<', ND/N.A., numeric parse, that
\* matches the trimmed and asterisk-stripped text, and that text itself when
\* no rule matches; "(3.2) <10" and "<10 (3.2)" give 3.2 and "<10" gives 5.
C4_FirstMatchWins ==
    (pcC # "raw" /\ value.k = "str") =>
        /\ cleaned = FirstMatch(Prep(value.s))
        /\ (value.s = <<"(", "3", ".", "2", ")", " ", "<", "1", "0">>
                => cleaned = Norm(32, 1))
        /\ (value.s = <<"<", "1", "0", " ", "(", "3", ".", "2", ")">>
                => cleaned = Norm(32, 1))
        /\ (value.s = <<"<", "1", "0">> => cleaned = Norm(5, 0))

\* a text that matches the parenthesis rule and the '<' rule with different
\* numbers has been normalized to the number in the parentheses
C4_Witness ==
    /\ pcC = "cleaned"
    /\ value.k = "str"
    /\ {2, 4} \subseteq Matching(Prep(value.s))
    /\ ParenRule(Prep(value.s)).v # LtRule(Prep(value.s)).v
    /\ cleaned = ParenRule(Prep(value.s)).v

\* C5 as stated: normalizing a normalized value changes nothing, for every
\* raw cell.
C5_Idempotent == pcC = "recleaned" => recleaned = cleaned

Trimmed(s) ==
    s = <<>> \/ (s[1] \notin {" ", "*"} /\ s[Len(s)] \notin {" ", "*"})

\* C5 as amended: normalizing a normalized value changes nothing exactly when
\* the normalized value is not text, or is text that neither begins nor ends
\* with whitespace or an asterisk; a cell that is not text is returned
\* unchanged.
C5_IdempotentOnNumbers ==
    pcC = "recleaned" =>
        /\ (recleaned = cleaned) <=> (cleaned.k # "str" \/ Trimmed(cleaned.s))
        /\ (value.k # "str" => cleaned = value)

\* a text cell has been normalized to a number and normalized again
C5_Witness ==
    /\ pcC = "recleaned"
    /\ value.k = "str"
    /\ cleaned.k = "num"
    /\ cleaned.m # 0
    /\ recleaned = cleaned

(***************************************************************************)
(* Claims about nice_num.                                                  *)
(***************************************************************************)
\* f * 10^e is the nice number of x: 10^e <= x < 10^(e+1) and f is chosen by
\* x / 10^e against 1.5, 3 and 7
NiceOf(x, f, e) ==
    /\ Leq(Ten(e), x)
    /\ Less(x, Ten(e + 1))
    /\ f = 1  <=> Less(x, Mul(Norm(15, 1), Ten(e)))
    /\ f = 2  <=> Leq(Mul(Norm(15, 1), Ten(e)), x) /\ Less(x, Mul(Norm(3, 0), Ten(e)))
    /\ f = 5  <=> Leq(Mul(Norm(3, 0), Ten(e)), x) /\ Less(x, Mul(Norm(7, 0), Ten(e)))
    /\ f = 10 <=> Leq(Mul(Norm(7, 0), Ten(e)), x)

\* C7: for every positive x, nice_num(x) = f * 10^e with e = floor(log10(x))
\* and f = 1, 2, 5, 10 as x / 10^e is below 1.5, in [1.5, 3), in [3, 7), or at
\* least 7; nice_num(1.5) = 2, nice_num(3) = 5, nice_num(7) = 10 and
\* nice_num(23) = 20.
C7_NiceNum ==
    (pcN = "done" /\ nx.m > 0) =>
        /\ \E e \in -3..6 : \E f \in {1, 2, 5, 10} :
               NiceOf(nx, f, e) /\ nres = Mul(Norm(f, 0), Ten(e))
        /\ (nx = Norm(15, 1) => nres = Norm(2, 0))
        /\ (nx = Norm(3, 0) => nres = Norm(5, 0))
        /\ (nx = Norm(7, 0) => nres = Norm(10, 0))
        /\ (nx = Norm(23, 0) => nres = Norm(20, 0))
        /\ (nx = Norm(5, 1) => nres = Norm(5, 1))

\* nice_num has been run on a boundary value, 15 = 1.5 * 10
C7_Witness == pcN = "done" /\ nx = Norm(15, 0) /\ nres = Norm(20, 0)

(***************************************************************************)
(* Claims about process_sheets.                                            *)
(***************************************************************************)
Last(s) == s[Len(s)]

MissesSome(cols) == \E c \in Range(required_headers) : c \notin Range(cols)

HasNone(cols) == \A c \in Range(required_headers) : c \notin Range(cols)

\* the turn of the loop just taken read a sheet with rows
TookSheet == Len(hist') = Len(hist) + 1 /\ Last(hist').read /\ ~Last(hist').empty

\* the turn of the loop skipped the sheet: no CSV, one more log entry naming
\* the sheet, no exception, and the loop is at the next sheet
Skipped ==
    /\ written' = written
    /\ lastcsv' = lastcsv
    /\ log' = Append(log, <<"no_columns", Last(hist').name>>)
    /\ pcS' = "loop"
    /\ si' = si + 1

\* C1 as stated: a sheet missing any of the five required columns is skipped.
C1_MissingAnySkipped ==
    [][(TookSheet /\ MissesSome(Last(hist').cols)) => Skipped]_vars

\* C1 as amended: a sheet that holds none of the five required columns is
\* skipped: no CSV is written for it, an entry is appended to the log, no
\* exception propagates and the loop goes on to the next sheet; a sheet that
\* holds at least one of them is not skipped.
C1_MissingAllSkipped ==
    [][TookSheet => (HasNone(Last(hist').cols) <=> Skipped)]_vars

\* a sheet without any required column was skipped and a later sheet written
C1_Witness ==
    \E i \in DOMAIN hist : \E j \in DOMAIN hist :
        /\ i < j
        /\ hist[i].read /\ ~hist[i].empty /\ HasNone(hist[i].cols)
        /\ hist[i].name \notin written
        /\ <<"no_columns", hist[i].name>> \in Range(log)
        /\ hist[j].name \in written

\* clean_data returns on every cell, so that process_sheets never meets a
\* problematic row (these two support the settlement of C3)
CleanDataReturns == pcC # "raw" => cleaned.k \in {"num", "str", "nan"}

NoProblematicRows == errfiles = {}

(***************************************************************************)
(* Claims about app.py.                                                    *)
(***************************************************************************)
\* C2: a failure on one item never keeps a later item from being attempted:
\* when clean_and_merge_data has ended, by returning or by an exception, every
\* file of the listing has been attempted.
C2_LaterItemsAttempted ==
    /\ (pcP = "raised" => fi = Len(csv_files))
    /\ (pcP \in {"merged", "plot", "done"} => fi > Len(csv_files))

\* clean_and_merge_data has returned a frame; calculate_max_values has run
HasFrame == pcP \in {"merged", "plot"} \/ (pcP = "done" /\ gi > 0)

HasMax == gi > 0

\* the cells that pd.to_numeric cannot read
Unreadable(c) ==
    c = NaN \/ (c.k = "str" /\ c.s \in {<<"N", "D">>, <<"a", "b", "c">>})

\* C8: the merged frame holds exactly the rows whose sample time is a date,
\* each once, with its source and sample time, each measurement that cannot
\* be read as a number replaced by null and every other measurement kept as
\* its number, in ascending order of sample time.
C8_DroppedIffTimeUnparseable ==
    HasFrame =>
        /\ {df_all[j].idx : j \in DOMAIN df_all}
               = {i \in DOMAIN all_data : all_data[i].t.k = "date"}
        /\ \A a \in DOMAIN df_all : \A b \in DOMAIN df_all :
               a # b => df_all[a].idx # df_all[b].idx
        /\ \A j \in DOMAIN df_all :
               LET r == df_all[j]
                   o == all_data[r.idx]
               IN  /\ r.src = o.src
                   /\ r.t.day = o.t.day
                   /\ \A p \in ParamSet :
                         /\ Unreadable(o.v[p]) => r.v[p] = NaN
                         /\ o.v[p].k = "num" => r.v[p] = o.v[p]
                         /\ o.v[p] = Str(<<"0", ".", "0", "5">>) => r.v[p] = Norm(5, 2)
        /\ \A a \in DOMAIN df_all : \A b \in DOMAIN df_all :
               a < b => df_all[a].t.day <= df_all[b].t.day

\* a merge that dropped a row, kept a row with an unreadable measurement as
\* null, and put a later row of the concatenation first
C8_Witness ==
    /\ HasFrame
    /\ Len(df_all) < Len(all_data)
    /\ \E j \in DOMAIN df_all :
          all_data[df_all[j].idx].v["bod"] = Str(<<"a", "b", "c">>) /\ df_all[j].v["bod"] = NaN
    /\ \E a \in DOMAIN df_all : \E b \in DOMAIN df_all :
          a < b /\ df_all[a].idx > df_all[b].idx

\* x is the largest value of parameter p in the merged frame
IsMax(x, p) ==
    /\ \E i \in DOMAIN df_all : df_all[i].v[p] = x
    /\ x # NaN
    /\ \A i \in DOMAIN df_all : df_all[i].v[p] # NaN => Leq(df_all[i].v[p], x)

Drawn(g, p) == plots[g].saved /\ plots[g].panels[p].drawn

\* every two panels of a parameter that were drawn have the same y-axis
\* limit and tick interval
SharedAxis ==
    \A g \in DOMAIN plots : \A h \in DOMAIN plots : \A p \in ParamSet :
        (Drawn(g, p) /\ Drawn(h, p)) =>
            /\ plots[g].panels[p].y_limit = plots[h].panels[p].y_limit
            /\ plots[g].panels[p].tick = plots[h].panels[p].tick

C9_OnlyMeasuredHighlighted ==
    \A g \in DOMAIN plots : \A p \in ParamSet :
        Drawn(g, p) =>
            \A i \in plots[g].panels[p].over : plots[g].panels[p].measured[i] # NaN

FracLeqNum(a, x) == a.n * Pow10(x.fd) <= x.m * a.d

\* C10: every shared maximum is positive, so that nice_num is called on a
\* positive number; every panel drawn has a positive tick interval and a y-axis
\* limit that is a whole multiple of it and at least the shared maximum, and
\* no value on its line, measured or interpolated, lies above the limit.
C10_AxisCoversData ==
    /\ HasMax => \A p \in ParamSet : max_values[p].m > 0
    /\ \A g \in DOMAIN plots : \A p \in ParamSet :
          Drawn(g, p) =>
              LET panel == plots[g].panels[p]
              IN  /\ panel.tick # ValueError
                  /\ panel.tick.m > 0
                  /\ panel.y_limit # ValueError
                  /\ (panel.y_limit.m * Pow10(panel.tick.fd))
                         % (panel.tick.m * Pow10(panel.y_limit.fd)) = 0
                  /\ Leq(max_values[p], panel.y_limit)
                  /\ \A i \in DOMAIN panel.line :
                        panel.line[i] # NaN => FracLeqNum(panel.line[i], panel.y_limit)

\* a panel of a parameter without any positive value has been drawn, with an
\* interpolated value on its line
C10_Witness ==
    \E g \in DOMAIN plots : \E p \in ParamSet :
        /\ Drawn(g, p)
        /\ \A i \in DOMAIN df_all : df_all[i].v[p] = NaN \/ df_all[i].v[p].m <= 0
        /\ \E i \in DOMAIN plots[g].panels[p].line :
              plots[g].panels[p].measured[i] = NaN /\ plots[g].panels[p].line[i] # NaN
        /\ plots[g].panels[p].y_limit = Norm(12, 1)

====
